---- MODULE Spec2Model ----
(***************************************************************************)
(* Model of the triplet approximator of moltemplate_helpers.py:            *)
(* the generator unique_enum, the scorer cubicity, the search decompose    *)
(* and modify_build, which calls decompose for the water and for the salt. *)
(*                                                                         *)
(* Python lists are modelled as sequences, so Python position i is         *)
(* position i+1 here.  cubicity computes in floats; the model computes the *)
(* same doubles, bit for bit, and the same overflows (see the section on   *)
(* floats).                                                                *)
(***************************************************************************)
EXTENDS Integers, Sequences, FiniteSets, TLC

\* Bounds of the model.
MaxBound == 3     \* unique_enum harness: bounds are drawn from -1..MaxBound
MaxLen == 3       \* unique_enum harness: length is drawn from 0..MaxLen
MaxSide == 5      \* cubicity harness: elements lie within MaxSide of 0 or of 2^BigExp,
BigExp == 52      \* where sum(triplet)/3 no longer holds thirds,
HugeExp == 1024   \* or are 2^HugeExp, which no float holds
MaxNumber == 220  \* modify_build: num_water is drawn from 0..MaxNumber
MaxSalt == 3      \* modify_build: num_salt is drawn from 0..MaxSalt

VARIABLES
    \* the generator object unique_enum(lower_bound, upper_bound, length)
    lower_bound, upper_bound, lower_type, upper_type, length,
    current_index,  \* the list the generator mutates and yields
    gen_pc,         \* "none", "created", "suspended" (at a yield), "raised", "finished"
    gen_error,      \* message of the exception the generator raised, or "none"
    yielded,        \* history: the values read at each yield, in order
    \* decompose(number): the frame of the call in progress
    number, lower, upper, min_error, min_factors,
    \* modify_build(num_water, num_salt)
    num_water, num_salt,  \* the arguments
    caller,         \* which call of decompose is in progress: "water" or "salt"
    water_factors, water_error,  \* what decompose(num_water) returned
    salt_factors, salt_error,    \* what decompose(num_salt) returned
    built,          \* [num_water, num_salt] as rebound from the products
    mb_error,       \* the exception modify_build raised, or "none"
    pc,             \* "idle"; decompose: "start", "loop", "done";
                    \* modify_build: "write", "built", "raised"
    \* cubicity(triplet)
    triplet,        \* a list of three Python ints
    output,         \* the float returned
    cub_error,      \* the exception cubicity raised, or "none"
    cub_pc

genvars == <<lower_bound, upper_bound, lower_type, upper_type, length,
             current_index, gen_pc, gen_error>>
decvars == <<number, lower, upper, min_error, min_factors>>
mbvars == <<num_water, num_salt, caller, water_factors, water_error,
            salt_factors, salt_error, built, mb_error>>
cubvars == <<triplet, output, cub_error, cub_pc>>
vars == <<genvars, yielded, decvars, mbvars, pc, cubvars>>

Abs(x) == IF x < 0 THEN -x ELSE x
Min2(a, b) == IF a < b THEN a ELSE b
Max2(a, b) == IF a > b THEN a ELSE b

\* [v]*n
Repeat(v, n) == [k \in 1..n |-> v]

RECURSIVE SumSeq(_)
SumSeq(s) == IF s = <<>> THEN 0 ELSE Head(s) + SumSeq(Tail(s))

RECURSIVE np_prod(_)
np_prod(s) == IF s = <<>> THEN 1 ELSE Head(s) * np_prod(Tail(s))

(***************************************************************************)
(* unique_enum                                                             *)
(***************************************************************************)

\* The error checks: the message of the exception raised, or "none".
ValidateReversed(lb, ub, lt, ut) ==
    IF lb < ub THEN "Lower bound exceeds upper bound"
    ELSE IF lt # "int" \/ ut # "int" THEN "Lower and upper bound must be integers"
    ELSE "none"

Validate(lb, ub, lt, ut) ==
    IF lb > ub THEN "Lower bound exceeds upper bound"
    ELSE IF lt # "int" \/ ut # "int" THEN "Lower and upper bound must be integers"
    ELSE "none"

\* The overflow carried into the next position once, without looping.
OverflowOnce(index, i, ub) ==
    IF index[i] > ub
    THEN IF i + 1 > Len(index)
         THEN [index |-> index, i |-> i + 1, ok |-> FALSE]
         ELSE [index |-> [index EXCEPT ![i + 1] = @ + 1], i |-> i + 1, ok |-> TRUE]
    ELSE [index |-> index, i |-> i, ok |-> TRUE]

\* The overflow loop, entered at position i after the increment of position i.
\* ok = FALSE is the IndexError of stepping past the last position.
RECURSIVE Overflow(_, _, _)
Overflow(index, i, ub) ==
    IF index[i] > ub
    THEN IF i + 1 > Len(index)
         THEN [index |-> index, i |-> i + 1, ok |-> FALSE]
         ELSE Overflow([index EXCEPT ![i + 1] = @ + 1], i + 1, ub)
    ELSE [index |-> index, i |-> i, ok |-> TRUE]

\* Resetting the positions below i to the last element instead of the carried one.
ResetToLast(index, i) ==
    [k \in 1..Len(index) |-> IF k < i THEN index[Len(index)] ELSE index[k]]

\* for j in range(i): current_index[j] = current_index[i]
Reset(index, i) ==
    [k \in 1..Len(index) |-> IF k < i THEN index[i] ELSE index[k]]

\* One pass of the body of the while loop without the resetting of the
\* positions below the carry.
AdvanceNoReset(index, ub) ==
    LET o == Overflow([index EXCEPT ![1] = @ + 1], 1, ub)
    IN  [ok |-> o.ok, index |-> o.index]

\* One pass of the body of the while loop, up to the yield.
Advance(index, ub) ==
    LET o == Overflow([index EXCEPT ![1] = @ + 1], 1, ub)
    IN  IF o.ok THEN [ok |-> TRUE, index |-> Reset(o.index, o.i)]
        ELSE [ok |-> FALSE, index |-> o.index]

\* next() on the generator: runs its body up to the next yield, to the
\* exception, or to the end.
unique_enum_next ==
    /\ gen_pc \in {"created", "suspended"}
    /\ UNCHANGED <<lower_bound, upper_bound, lower_type, upper_type, length>>
    /\ IF gen_pc = "created"
       THEN LET e == Validate(lower_bound, upper_bound, lower_type, upper_type)
            IN  IF e # "none"
                THEN /\ gen_pc' = "raised"
                     /\ gen_error' = e
                     /\ UNCHANGED current_index
                ELSE /\ current_index' = Repeat(lower_bound, length)
                     /\ gen_pc' = "suspended"
                     /\ UNCHANGED gen_error
       ELSE IF current_index # Repeat(upper_bound, length)
            THEN LET a == Advance(current_index, upper_bound)
                 IN  /\ current_index' = a.index
                     /\ gen_pc' = IF a.ok THEN "suspended" ELSE "raised"
                     /\ gen_error' = IF a.ok THEN gen_error ELSE "IndexError"
            ELSE /\ gen_pc' = "finished"
                 /\ UNCHANGED <<current_index, gen_error>>

\* for i in unique_enum(...): read i.  The first next() on the generator.
enum_start ==
    /\ pc = "idle"
    /\ gen_pc = "created"
    /\ unique_enum_next
    /\ yielded' = IF gen_pc' = "suspended" THEN Append(yielded, current_index')
                  ELSE yielded
    /\ UNCHANGED <<decvars, mbvars, pc, cubvars>>

\* Every later next() on the generator.
enum_resume ==
    /\ pc = "idle"
    /\ gen_pc = "suspended"
    /\ unique_enum_next
    /\ yielded' = IF gen_pc' = "suspended" THEN Append(yielded, current_index')
                  ELSE yielded
    /\ UNCHANGED <<decvars, mbvars, pc, cubvars>>

(***************************************************************************)
(* Python ints and floats, as far as cubicity needs them                   *)
(*                                                                         *)
(* A natural number of any size is a sequence of limbs of 27 bits, lowest  *)
(* limb first, without leading zero limbs (0 is <<>>).  A Python int is a  *)
(* sign and such a magnitude.  A Python float (IEEE 754 binary64) is a     *)
(* sign and a magnitude counted in units of 2^-54: sum(triplet)/3 and      *)
(* everything cubicity derives from it is a multiple of 2^-54.  Every      *)
(* float operation rounds its exact result to 53 significant bits, to      *)
(* nearest, ties to even, as the hardware does.  A result of 2^1024 or     *)
(* more is no double: int / int and the conversion of an int raise         *)
(* OverflowError, float + float and float - float give an infinity.        *)
(***************************************************************************)

Limb == 2^27

\* the number of bits of a limb n
BitLength(n) == Cardinality({k \in 0..26 : 2^k <= n})

LimbAt(a, k) == IF k <= Len(a) THEN a[k] ELSE 0

\* the position of the highest limb of a that is not 0, or 0
TopLimb(a) ==
    CHOOSE k \in 0..Len(a) :
        /\ k = 0 \/ a[k] # 0
        /\ \A j \in (k + 1)..Len(a) : a[j] = 0

\* a without leading zero limbs
Canon(a) == SubSeq(a, 1, TopLimb(a))

\* whether a + b carries into limb k
Carry(a, b, k) ==
    \E j \in 1..(k - 1) :
        /\ LimbAt(a, j) + LimbAt(b, j) >= Limb
        /\ \A i \in (j + 1)..(k - 1) : LimbAt(a, i) + LimbAt(b, i) = Limb - 1

NatAdd(a, b) ==
    Canon([k \in 1..(Max2(Len(a), Len(b)) + 1) |->
              (LimbAt(a, k) + LimbAt(b, k) + IF Carry(a, b, k) THEN 1 ELSE 0) % Limb])

\* whether a - b borrows from limb k
Borrow(a, b, k) ==
    \E j \in 1..(k - 1) :
        /\ a[j] < LimbAt(b, j)
        /\ \A i \in (j + 1)..(k - 1) : a[i] = LimbAt(b, i)

\* a - b, for a >= b
NatSub(a, b) ==
    Canon([k \in 1..Len(a) |->
              (a[k] - LimbAt(b, k) - (IF Borrow(a, b, k) THEN 1 ELSE 0) + Limb) % Limb])

\* a < b
NatLess(a, b) ==
    IF Len(a) # Len(b) THEN Len(a) < Len(b)
    ELSE \E k \in 1..Len(a) :
            /\ a[k] < b[k]
            /\ \A j \in (k + 1)..Len(a) : a[j] = b[j]

NatBitLength(a) ==
    IF a = <<>> THEN 0 ELSE 27 * (Len(a) - 1) + BitLength(a[Len(a)])

\* bit k of a (bit 0 is the lowest)
NatBit(a, k) == (LimbAt(a, (k \div 27) + 1) \div 2^(k % 27)) % 2

\* a mod 2^d
NatLow(a, d) ==
    Canon([k \in 1..Min2(Len(a), (d \div 27) + 1) |->
              IF k <= d \div 27 THEN a[k] ELSE a[k] % 2^(d % 27)])

\* 2^d
NatPow2(d) ==
    SubSeq([k \in 1..((d \div 27) + 1) |-> IF k = (d \div 27) + 1 THEN 2^(d % 27) ELSE 0],
           1, (d \div 27) + 1)

\* the number made of the limbs k and up of a, modulo 3
RECURSIVE Rem3From(_, _)
Rem3From(a, k) ==
    IF k > Len(a) THEN 0 ELSE (Rem3From(a, k + 1) * Limb + a[k]) % 3

\* a divided by 3: the quotient and the remainder
NatDiv3(a) ==
    [q |-> Canon([k \in 1..Len(a) |-> (Rem3From(a, k + 1) * Limb + a[k]) \div 3]),
     r |-> Rem3From(a, 1)]

\* 2^1024 in units of 2^-54: the first magnitude beyond the doubles
FloatLimit == NatPow2(1078)

\* Whether a magnitude whose dropped bits are low rounds away from 0: half is
\* half a unit of the last kept bit, odd tells whether that bit is set, and
\* t3 thirds of a unit lie beyond low.
RoundUp(low, half, odd, t3) ==
    \/ NatLess(half, low)
    \/ low = half /\ (t3 > 0 \/ odd)

\* a + t3/3 rounded at bit d, d > 0, the bits below d being low
RoundAt(a, d, low, t3) ==
    IF RoundUp(low, NatPow2(d - 1), NatBit(a, d) = 1, t3)
    THEN NatAdd(NatSub(a, low), NatPow2(d))
    ELSE NatSub(a, low)

\* a + t3/3 rounded to the nearest magnitude of 53 bits, ties to even; d is
\* the number of bits of a beyond 53
Nearest(a, d, t3) ==
    IF d <= 0
    THEN IF t3 = 2 THEN NatAdd(a, <<1>>) ELSE a
    ELSE RoundAt(a, d, NatLow(a, d), t3)

\* a rounded magnitude m: overflow when it is 2^1024 or more, which no
\* double holds
Rounded(m) ==
    [overflow |-> ~NatLess(m, FloatLimit),
     mag |-> IF NatLess(m, FloatLimit) THEN m ELSE <<>>]

\* The magnitude of the double nearest to the exact magnitude a + t3/3 units
\* (t3 in 0..2), or overflow
RoundMag(a, t3) == Rounded(Nearest(a, NatBitLength(a) - 53, t3))

\* A signed number; a zero is never negative.
Signed(neg, mag) == [neg |-> neg /\ mag # <<>>, mag |-> mag]

\* The Python int n, for a small integer n
PyInt(n) == Signed(n < 0, Canon(<<Abs(n) % Limb, Abs(n) \div Limb>>))

\* The Python ints of a list of small integers
PyInts(t) == [k \in DOMAIN t |-> PyInt(t[k])]

\* x + y on signed magnitudes, exact: Python ints, and finite floats before
\* the rounding
SignedAdd(x, y) ==
    IF x.neg = y.neg THEN Signed(x.neg, NatAdd(x.mag, y.mag))
    ELSE IF NatLess(x.mag, y.mag) THEN Signed(y.neg, NatSub(y.mag, x.mag))
    ELSE Signed(x.neg, NatSub(x.mag, y.mag))

\* sum(t) for a list of Python ints
RECURSIVE IntSum(_)
IntSum(t) ==
    IF t = <<>> THEN PyInt(0)
    ELSE SignedAdd(IntSum(SubSeq(t, 1, Len(t) - 1)), t[Len(t)])

\* The value of a float expression: a finite double, an infinity, a nan, or
\* the exception the expression raised instead of giving a value (kind is
\* then the exception and its message).
Finite(neg, mag) == [kind |-> "finite", neg |-> neg /\ mag # <<>>, mag |-> mag]

Inf(neg) == [kind |-> "inf", neg |-> neg, mag |-> <<>>]

NaN == [kind |-> "nan", neg |-> FALSE, mag |-> <<>>]

Raise(error) == [kind |-> error, neg |-> FALSE, mag |-> <<>>]

Raised(x) == x.kind \notin {"finite", "inf", "nan"}

\* The float of sign neg and rounded magnitude r, where an overflow raises
FloatOrRaise(neg, r, error) ==
    IF r.overflow THEN Raise(error) ELSE Finite(neg, r.mag)

\* The float of sign neg and rounded magnitude r, where an overflow is an
\* infinity
FloatOrInf(neg, r) == IF r.overflow THEN Inf(neg) ELSE Finite(neg, r.mag)

\* float(n) for a Python int n, as float - int converts its right operand
ToFloat(n) ==
    IF n.mag = <<>> THEN Finite(FALSE, <<>>)
    ELSE FloatOrRaise(n.neg, RoundMag(<<0, 0>> \o n.mag, 0),
                      "OverflowError: int too large to convert to float")

\* the quotient d.q and remainder d.r of a division by 3, rounded
RoundQuotient(d) == RoundMag(d.q, d.r)

\* n / 3 for a Python int n: the correctly rounded quotient
DivBy3(n) ==
    IF n.mag = <<>> THEN Finite(FALSE, <<>>)
    ELSE FloatOrRaise(n.neg, RoundQuotient(NatDiv3(<<0, 0>> \o n.mag)),
                      "OverflowError: integer division result too large for a float")

\* -x
FNeg(x) ==
    IF Raised(x) \/ x.kind = "nan" THEN x
    ELSE IF x.kind = "inf" THEN Inf(~x.neg)
    ELSE Finite(~x.neg, x.mag)

\* abs(x)
FAbs(x) == IF Raised(x) THEN x ELSE [x EXCEPT !.neg = FALSE]

\* the exact sum s of two finite floats, rounded
RoundSum(s) == FloatOrInf(s.neg, RoundMag(s.mag, 0))

\* x + y: the left operand is evaluated first, so its exception wins; a sum
\* beyond the doubles is an infinity
FAdd(x, y) ==
    IF Raised(x) THEN x
    ELSE IF Raised(y) THEN y
    ELSE IF x.kind = "nan" \/ y.kind = "nan" THEN NaN
    ELSE IF x.kind = "inf"
    THEN IF y.kind = "inf" /\ y.neg # x.neg THEN NaN ELSE x
    ELSE IF y.kind = "inf" THEN y
    ELSE RoundSum(SignedAdd(x, y))

\* x - y
FSub(x, y) == FAdd(x, FNeg(y))

\* abs(x) < abs(y), for x and y finite or infinite
MagLess(x, y) ==
    IF x.kind = "inf" THEN FALSE
    ELSE IF y.kind = "inf" THEN TRUE
    ELSE NatLess(x.mag, y.mag)

\* x < y, for floats x and y
FLess(x, y) ==
    IF x.kind = "nan" \/ y.kind = "nan" THEN FALSE
    ELSE IF x.neg # y.neg THEN x.neg
    ELSE IF x.neg THEN MagLess(y, x)
    ELSE MagLess(x, y)

(***************************************************************************)
(* cubicity                                                                *)
(***************************************************************************)

\* abs(sum(t)/3 - t[i]) for a list t of Python ints; i counts from 1 here
Deviation(t, i) == FAbs(FSub(DivBy3(IntSum(t)), ToFloat(t[i])))

\* abs(sum(t)/3 - t[0]) + abs(sum(t)/3 - t[2]) + abs(sum(t)/3 - t[2]), for a
\* list t of Python ints
cubicity(t) == FAdd(FAdd(Deviation(t, 1), Deviation(t, 3)), Deviation(t, 3))

\* The end of a call of cubicity whose expression evaluated to result: the
\* value is returned, or the exception is raised.
cubicity_return(result) ==
    IF Raised(result)
    THEN /\ cub_error' = result.kind
         /\ cub_pc' = "raised"
         /\ output' = output
    ELSE /\ output' = result
         /\ cub_pc' = "returned"
         /\ cub_error' = cub_error

\* One call cubicity(triplet)
cubicity_call ==
    /\ cub_pc = "start"
    /\ cubicity_return(cubicity(triplet))
    /\ UNCHANGED <<genvars, yielded, decvars, mbvars, pc, triplet>>

(***************************************************************************)
(* decompose                                                               *)
(***************************************************************************)

\* round(number**(1/3)): the r with (r - 1/2)^3 <= number < (r + 1/2)^3
RECURSIVE CubeRootFrom(_, _)
CubeRootFrom(n, r) ==
    IF (2 * r + 1) * (2 * r + 1) * (2 * r + 1) > 8 * n THEN r
    ELSE CubeRootFrom(n, r + 1)

CubeRoot(n) == CubeRootFrom(n, 0)

\* round(num/den) as Python rounds a float: halves go to the even neighbour
RoundHalfEven(num, den) ==
    LET q == num \div den
        r == num % den
    IN  IF 2 * r < den THEN q
        ELSE IF 2 * r > den THEN q + 1
        ELSE IF q % 2 = 0 THEN q ELSE q + 1

Lower(root) ==
    IF root <= 5 THEN 0 ELSE Min2(RoundHalfEven(root, 2), root - 5)

\* The upper limit with a window of root + 2.
UpperNarrow(root) == Max2(RoundHalfEven(17 * root, 10), root + 2)

Upper(root) == Max2(RoundHalfEven(17 * root, 10), root + 5)

\* The body of the search loop without the branch for equal errors.
SearchStepNoTie(num, factors, err, fac) ==
    LET error == Abs(num - factors[1] * factors[2] * factors[3])
    IN  IF err > error
        THEN [min_error |-> error, min_factors |-> factors]
        ELSE [min_error |-> err, min_factors |-> fac]

\* The body of the search loop with the two error comparisons exchanged.
SearchStepWorse(num, factors, err, fac) ==
    LET error == Abs(num - factors[1] * factors[2] * factors[3])
    IN  IF err > error
        THEN [min_error |-> err, min_factors |-> fac]
        ELSE IF err < error
        THEN [min_error |-> error, min_factors |-> factors]
        ELSE IF FLess(cubicity(PyInts(factors)), cubicity(PyInts(fac)))
        THEN [min_error |-> err, min_factors |-> factors]
        ELSE [min_error |-> err, min_factors |-> fac]

\* The body of the search loop with the cubicity comparison reversed.
SearchStepLessCubic(num, factors, err, fac) ==
    LET error == Abs(num - factors[1] * factors[2] * factors[3])
    IN  IF err < error
        THEN [min_error |-> err, min_factors |-> fac]
        ELSE IF err > error
        THEN [min_error |-> error, min_factors |-> factors]
        ELSE IF FLess(cubicity(PyInts(fac)), cubicity(PyInts(factors)))
        THEN [min_error |-> err, min_factors |-> factors]
        ELSE [min_error |-> err, min_factors |-> fac]

\* The body of the search loop for the candidate factors, with the best
\* record (fac, err) before it: the best record after it.
SearchStep(num, factors, err, fac) ==
    LET error == Abs(num - factors[1] * factors[2] * factors[3])
    IN  IF err < error
        THEN [min_error |-> err, min_factors |-> fac]
        ELSE IF err > error
        THEN [min_error |-> error, min_factors |-> factors]
        ELSE IF FLess(cubicity(PyInts(factors)), cubicity(PyInts(fac)))
        THEN [min_error |-> err, min_factors |-> factors]
        ELSE [min_error |-> err, min_factors |-> fac]

\* Setting the limits, the initial best record, and creating the generator.
decompose_start ==
    /\ pc = "start"
    /\ LET root == CubeRoot(number)
       IN  /\ lower' = Lower(root)
           /\ upper' = Upper(root)
    /\ min_error' = Abs(number - lower' * lower' * lower')
    /\ min_factors' = Repeat(lower', 3)
    /\ lower_bound' = lower'
    /\ upper_bound' = upper'
    /\ lower_type' = "int"
    /\ upper_type' = "int"
    /\ length' = 3
    /\ gen_pc' = "created"
    /\ pc' = "loop"
    /\ UNCHANGED <<current_index, gen_error, yielded, number, mbvars, cubvars>>

\* One iteration of the for loop: the generator yields a candidate.
decompose_iter ==
    /\ pc = "loop"
    /\ unique_enum_next
    /\ gen_pc' = "suspended"
    /\ yielded' = Append(yielded, current_index')
    /\ LET b == SearchStep(number, current_index', min_error, min_factors)
       IN  /\ min_error' = b.min_error
           /\ min_factors' = b.min_factors
    /\ UNCHANGED <<number, lower, upper, pc, mbvars, cubvars>>

\* The generator is exhausted: decompose returns [min_factors, min_error].
\* An exception of the generator propagates through decompose and its caller.
decompose_return ==
    /\ pc = "loop"
    /\ unique_enum_next
    /\ gen_pc' # "suspended"
    /\ pc' = IF gen_pc' = "finished" THEN "done" ELSE "raised"
    /\ mb_error' = IF gen_pc' = "finished" THEN mb_error ELSE gen_error'
    /\ UNCHANGED <<yielded, decvars, num_water, num_salt, caller, water_factors,
                   water_error, salt_factors, salt_error, built, cubvars>>

(***************************************************************************)
(* modify_build                                                            *)
(***************************************************************************)

HasZero(t) == \E k \in DOMAIN t : t[k] = 0

\* water_factors, water_error = decompose(num_water), then the call of
\* decompose(num_salt).
modify_build_water ==
    /\ pc = "done"
    /\ caller = "water"
    /\ water_factors' = min_factors
    /\ water_error' = min_error
    /\ caller' = "salt"
    /\ number' = num_salt
    /\ lower' = 0 /\ upper' = 0
    /\ min_error' = 0 /\ min_factors' = <<>>
    /\ lower_bound' = 0 /\ upper_bound' = 0
    /\ lower_type' = "int" /\ upper_type' = "int"
    /\ length' = 0
    /\ current_index' = <<>>
    /\ gen_pc' = "none" /\ gen_error' = "none"
    /\ yielded' = <<>>
    /\ pc' = "start"
    /\ UNCHANGED <<num_water, num_salt, salt_factors, salt_error, built, mb_error,
                   cubvars>>

\* salt_factors, salt_error = decompose(num_salt), the two products, the grid
\* and the spacings grid/factor.  With a factor 0 this is the run where grid
\* is a numpy scalar (the default grid), whose division by 0 gives inf or nan.
modify_build_salt ==
    /\ pc = "done"
    /\ caller = "salt"
    /\ salt_factors' = min_factors
    /\ salt_error' = min_error
    /\ built' = <<np_prod(water_factors), np_prod(min_factors)>>
    /\ pc' = "write"
    /\ UNCHANGED <<genvars, yielded, decvars, num_water, num_salt, caller,
                   water_factors, water_error, mb_error, cubvars>>

\* The same with a factor 0 and a grid that is a Python float: the division
\* grid/factor raises ZeroDivisionError.
modify_build_zero_division ==
    /\ pc = "done"
    /\ caller = "salt"
    /\ HasZero(water_factors) \/ HasZero(min_factors)
    /\ salt_factors' = min_factors
    /\ salt_error' = min_error
    /\ built' = <<np_prod(water_factors), np_prod(min_factors)>>
    /\ pc' = "raised"
    /\ mb_error' = "ZeroDivisionError"
    /\ UNCHANGED <<genvars, yielded, decvars, num_water, num_salt, caller,
                   water_factors, water_error, cubvars>>

\* The build file is read, rewritten and written: modify_build returns
\* [num_water, num_salt].
modify_build_write ==
    /\ pc = "write"
    /\ pc' = "built"
    /\ UNCHANGED <<genvars, yielded, decvars, mbvars, cubvars>>

\* The build file cannot be read or written, or a marker line stands within
\* its last three lines: the exception propagates.
modify_build_file_error ==
    /\ pc = "write"
    /\ pc' = "raised"
    /\ mb_error' = "file error"
    /\ UNCHANGED <<genvars, yielded, decvars, num_water, num_salt, caller,
                   water_factors, water_error, salt_factors, salt_error, built,
                   cubvars>>

(***************************************************************************)
(* Specifications                                                          *)
(***************************************************************************)

BoundValues == -1..MaxBound
Types == {"int", "float"}

NoGenerator ==
    /\ lower_bound = 0 /\ upper_bound = 0
    /\ lower_type = "int" /\ upper_type = "int"
    /\ length = 0
    /\ current_index = <<>>
    /\ gen_pc = "none" /\ gen_error = "none"

NoDecompose ==
    /\ number = 0 /\ lower = 0 /\ upper = 0
    /\ min_error = 0 /\ min_factors = <<>>

NoModifyBuild ==
    /\ num_water = 0 /\ num_salt = 0
    /\ caller = "none"
    /\ water_factors = <<>> /\ water_error = 0
    /\ salt_factors = <<>> /\ salt_error = 0
    /\ built = <<>>
    /\ mb_error = "none"

NoCubicity ==
    /\ triplet = <<>> /\ output = ToFloat(PyInt(0))
    /\ cub_error = "none" /\ cub_pc = "idle"

\* unique_enum driven by a for loop, on any arguments within the bounds
InitEnum ==
    /\ lower_bound \in BoundValues
    /\ upper_bound \in BoundValues
    /\ lower_type \in Types
    /\ upper_type \in Types
    /\ length \in 0..MaxLen
    /\ current_index = <<>>
    /\ gen_pc = "created"
    /\ gen_error = "none"
    /\ yielded = <<>>
    /\ NoDecompose
    /\ NoModifyBuild
    /\ pc = "idle"
    /\ NoCubicity

NextEnum == enum_start \/ enum_resume

SpecEnum == InitEnum /\ [][NextEnum]_vars

\* The for loop keeps calling next() until the generator stops or raises.
FairSpecEnum == SpecEnum /\ WF_vars(NextEnum)

\* The ints a triplet is made of: those within MaxSide of 0, those within
\* MaxSide of 2^BigExp, and 2^HugeExp
Elements ==
    {PyInt(n) : n \in -MaxSide..MaxSide}
        \cup {SignedAdd(Signed(FALSE, NatPow2(BigExp)), PyInt(n)) : n \in -MaxSide..MaxSide}
        \cup {Signed(FALSE, NatPow2(HugeExp))}

\* cubicity on any triplet of the elements
InitCubicity ==
    /\ triplet \in [1..3 -> Elements]
    /\ output = ToFloat(PyInt(0))
    /\ cub_error = "none"
    /\ cub_pc = "start"
    /\ NoGenerator
    /\ yielded = <<>>
    /\ NoDecompose
    /\ NoModifyBuild
    /\ pc = "idle"

NextCubicity == cubicity_call

SpecCubicity == InitCubicity /\ [][NextCubicity]_vars

\* modify_build on any counts within the bounds, at its call of
\* decompose(num_water)
Init ==
    /\ num_water \in 0..MaxNumber
    /\ num_salt \in 0..MaxSalt
    /\ caller = "water"
    /\ number = num_water
    /\ lower = 0 /\ upper = 0
    /\ min_error = 0 /\ min_factors = <<>>
    /\ water_factors = <<>> /\ water_error = 0
    /\ salt_factors = <<>> /\ salt_error = 0
    /\ built = <<>>
    /\ mb_error = "none"
    /\ pc = "start"
    /\ NoGenerator
    /\ yielded = <<>>
    /\ NoCubicity

Next ==
    \/ decompose_start
    \/ decompose_iter
    \/ decompose_return
    \/ modify_build_water
    \/ modify_build_salt
    \/ modify_build_zero_division
    \/ modify_build_write
    \/ modify_build_file_error

Spec == Init /\ [][Next]_vars

(***************************************************************************)
(* Properties                                                              *)
(***************************************************************************)

RECURSIVE Binomial(_, _)
Binomial(n, k) ==
    IF k = 0 THEN 1
    ELSE IF n < k THEN 0
    ELSE Binomial(n - 1, k - 1) + Binomial(n - 1, k)

Count(s, v) == Cardinality({k \in DOMAIN s : s[k] = v})

SameMultiset(s, t) ==
    /\ Len(s) = Len(t)
    /\ \A k \in DOMAIN s : Count(s, s[k]) = Count(t, s[k])

IntBounds == lower_type = "int" /\ upper_type = "int"

ValidArgs == IntBounds /\ lower_bound <= upper_bound /\ length >= 1

Finished == gen_pc = "finished"

C1_Safety ==
    ValidArgs =>
        /\ gen_pc # "raised"
        /\ Len(yielded) <= Binomial(upper_bound - lower_bound + length, length)
        /\ \A k \in DOMAIN yielded :
              /\ Len(yielded[k]) = length
              /\ \A j \in 1..length : yielded[k][j] \in lower_bound..upper_bound
        /\ \A j, k \in DOMAIN yielded : j < k => ~SameMultiset(yielded[j], yielded[k])
        /\ Finished =>
              /\ Len(yielded) = Binomial(upper_bound - lower_bound + length, length)
              /\ \A f \in [1..length -> lower_bound..upper_bound] :
                    \E k \in DOMAIN yielded : SameMultiset(yielded[k], f)
              /\ lower_bound = upper_bound => yielded = <<Repeat(lower_bound, length)>>

\* C1: for integers lo <= hi and L >= 1, iterating unique_enum(lo, hi, L)
\* never raises (the carry loop stays within the list) and terminates, after
\* yielding exactly C(hi-lo+L, L) sequences of L entries within [lo, hi], no
\* two of them the same multiset, every multiset of size L over [lo, hi]
\* among them; lo = hi yields the one sequence [lo]*L.
C1_EveryMultisetOnce == [](C1_Safety) /\ []((ValidArgs => <>Finished))

C1_Witness ==
    /\ ValidArgs /\ Finished
    /\ lower_bound = 0 /\ upper_bound = 2 /\ length = 3
    /\ Len(yielded) = 10

\* C2: decompose(k^3) returns [k, k, k] with error 0 for every k >= 1, also
\* when another triplet within the limits has the product k^3.
C2_CubeReturnsCube ==
    pc = "done" =>
        \A k \in 1..number :
            k * k * k = number => min_factors = <<k, k, k>> /\ min_error = 0

C2_Witness ==
    /\ pc = "done" /\ caller = "water" /\ number = 8
    /\ lower <= 1 /\ upper >= 4
    /\ min_factors = <<2, 2, 2>> /\ min_error = 0

MaxOf(t) == CHOOSE x \in {t[k] : k \in DOMAIN t} : \A k \in DOMAIN t : t[k] <= x
MinOf(t) == CHOOSE x \in {t[k] : k \in DOMAIN t} : \A k \in DOMAIN t : t[k] >= x

\* C3: for every positive number, the largest element of the triplet
\* decompose(number) returns is at most 3 times its smallest element.
C3_NoElementThreeTimesAnother ==
    (pc = "done" /\ number >= 1) => MaxOf(min_factors) <= 3 * MinOf(min_factors)

\* C4: for 0 <= n < 11 decompose(n) returns error 0 and a triplet of product
\* n, and the count modify_build computes from the triplet is n, for the
\* water and for the salt.
C4_SmallCountsExact ==
    /\ (pc = "done" /\ number < 11) =>
          min_error = 0 /\ np_prod(min_factors) = number
    /\ built # <<>> =>
          /\ num_water < 11 => water_error = 0 /\ built[1] = num_water
          /\ num_salt < 11 => salt_error = 0 /\ built[2] = num_salt

C4_Witness ==
    /\ pc = "built" /\ num_water = 7 /\ num_salt = 3
    /\ water_factors = <<7, 1, 1>> /\ salt_factors = <<3, 1, 1>>
    /\ built = <<7, 3>>

\* C5: cubicity(t) is non-negative, and 0 exactly when the three elements
\* of t are equal; cubicity([5,5,5]) = 0.
C5_CubicityZeroIffCube ==
    cub_pc = "returned" =>
        /\ ~FLess(output, ToFloat(PyInt(0)))
        /\ output = ToFloat(PyInt(0)) <=>
              (triplet[1] = triplet[2] /\ triplet[2] = triplet[3])
        /\ triplet = PyInts(<<5, 5, 5>>) => output = ToFloat(PyInt(0))

\* C6: driven with integer bounds lo > hi, unique_enum raises "Lower bound
\* exceeds upper bound" and yields nothing before it.
C6_ReversedBoundsRaise ==
    (IntBounds /\ lower_bound > upper_bound /\ gen_pc # "created") =>
        /\ gen_pc = "raised"
        /\ gen_error = "Lower bound exceeds upper bound"
        /\ yielded = <<>>

C6_Witness ==
    /\ IntBounds /\ lower_bound = 2 /\ upper_bound = 1
    /\ gen_pc = "raised" /\ yielded = <<>>

\* t is the odometer successor of s: the positions before p stand at hi,
\* position p is incremented, the positions before p take its new value.
OdometerSuccessor(s, t, hi) ==
    \E p \in DOMAIN s :
        /\ \A k \in 1..(p - 1) : s[k] = hi
        /\ s[p] < hi
        /\ t = [k \in DOMAIN s |->
                  IF k < p THEN s[p] + 1 ELSE IF k = p THEN s[p] + 1 ELSE s[k]]

\* C7: the values unique_enum(lo, hi, L) yields come in odometer order, from
\* [lo]*L to [hi]*L; unique_enum(1, 2, 2) yields [1,1],[2,1],[2,2] and
\* unique_enum(1, 2, 3) yields [1,1,1],[2,1,1],[2,2,1],[2,2,2].
C7_OdometerOrder ==
    ValidArgs =>
        /\ yielded # <<>> => yielded[1] = Repeat(lower_bound, length)
        /\ \A k \in 1..(Len(yielded) - 1) :
              OdometerSuccessor(yielded[k], yielded[k + 1], upper_bound)
        /\ Finished => yielded[Len(yielded)] = Repeat(upper_bound, length)
        /\ (Finished /\ lower_bound = 1 /\ upper_bound = 2 /\ length = 2) =>
              yielded = << <<1, 1>>, <<2, 1>>, <<2, 2>> >>
        /\ (Finished /\ lower_bound = 1 /\ upper_bound = 2 /\ length = 3) =>
              yielded = << <<1, 1, 1>>, <<2, 1, 1>>, <<2, 2, 1>>, <<2, 2, 2>> >>

C7_Witness ==
    /\ ValidArgs /\ Finished
    /\ lower_bound = 1 /\ upper_bound = 2 /\ length = 3
    /\ Len(yielded) = 4

\* C8, as stated: every yielded sequence is non-decreasing by position,
\* s[i] <= s[i+1].
C8_NonDecreasing ==
    (IntBounds /\ lower_bound <= upper_bound) =>
        \A k \in DOMAIN yielded :
            \A i \in 1..(length - 1) : yielded[k][i] <= yielded[k][i + 1]

\* C8, amended: every yielded sequence is non-increasing by position,
\* s[i] >= s[i+1].
C8_NonIncreasing ==
    (IntBounds /\ lower_bound <= upper_bound) =>
        \A k \in DOMAIN yielded :
            \A i \in 1..(length - 1) : yielded[k][i] >= yielded[k][i + 1]

C8_Witness ==
    /\ IntBounds /\ lower_bound = 1 /\ upper_bound = 3 /\ length = 3
    /\ yielded # <<>> /\ yielded[Len(yielded)] = <<3, 2, 1>>

Error(t) == Abs(number - t[1] * t[2] * t[3])

\* C9: the triplet decompose returns lies in [lower, upper], the error it
\* returns is that of the triplet and is the least error of any triplet over
\* [lower, upper], and no candidate of that error has a lower cubicity.
C9_BestInWindow ==
    (pc = "done" /\ number >= 1) =>
        /\ \A k \in 1..3 : min_factors[k] \in lower..upper
        /\ min_error = Error(min_factors)
        /\ \A x, y, z \in lower..upper : min_error <= Error(<<x, y, z>>)
        /\ \A k \in DOMAIN yielded :
              Error(yielded[k]) = min_error =>
                  ~FLess(cubicity(PyInts(yielded[k])), cubicity(PyInts(min_factors)))

C9_Witness ==
    /\ pc = "done" /\ caller = "water" /\ number = 205
    /\ lower = 1 /\ upper = 11
    /\ Len(yielded) = 286
    /\ min_factors = <<7, 6, 5>> /\ min_error = 5

SearchStepMonotone ==
    (pc = "loop" /\ pc' = "loop") =>
        /\ min_error' <= min_error
        /\ min_error' = min_error =>
              \/ min_factors' = min_factors
              \/ ~FLess(cubicity(PyInts(min_factors)), cubicity(PyInts(min_factors')))

\* C10: from one enumeration step to the next the best error never
\* increases, and when it is unchanged the cubicity of the best triplet does
\* not increase; the best error is at most |number - lower^3| throughout.
C10_BestNeverRegresses ==
    /\ [][SearchStepMonotone]_vars
    /\ [](pc \in {"loop", "done"} =>
            min_error <= Abs(number - lower * lower * lower))

C10_Witness ==
    /\ pc = "loop" /\ caller = "water" /\ number = 8
    /\ current_index = <<2, 2, 2>>
    /\ min_factors = <<2, 2, 2>> /\ min_error = 0

====
